---- MODULE Spec2Model ----
(***************************************************************************)
(* A model of the Form 4 collection pipeline: the identifier-map cache     *)
(* (scraper.fetch_ticker_to_cik_map), the per-entity submission scan, the  *)
(* paginated date-range search, the document fetcher, the transaction      *)
(* extractor (parser.parse_form4_xml) and the two collection strategies.   *)
(*                                                                         *)
(* Text is a sequence of one-character strings.  A Python float is a       *)
(* record [kind, v]: kind "num" with the integer value v, kind "inf" with  *)
(* the sign v, or kind "nan".  Only integral numerals are enumerated, so   *)
(* every "num" is exact.                                                   *)
(***************************************************************************)
EXTENDS Integers, Sequences, FiniteSets, TLC

(* ---------------------------------------------------------------------- *)
(* Bounds of the enumerated inputs                                         *)
(* ---------------------------------------------------------------------- *)
MaxTextLen == 3

(* ---------------------------------------------------------------------- *)
(* Text helpers (Python str methods)                                       *)
(* ---------------------------------------------------------------------- *)
DigitChars == <<"0", "1", "2", "3", "4", "5", "6", "7", "8", "9">>

IsDigit(c) == \E i \in 1..10 : DigitChars[i] = c

DigitVal(c) == (CHOOSE i \in 1..10 : DigitChars[i] = c) - 1

IsSpace(c) == c \in {" ", "\t", "\n"}

\* str.replace(c, "")
RemoveChar(s, c) == SelectSeq(s, LAMBDA x : x # c)

RECURSIVE LStrip(_)
LStrip(s) == IF s # <<>> /\ IsSpace(Head(s)) THEN LStrip(Tail(s)) ELSE s

RECURSIVE RStrip(_)
RStrip(s) ==
    IF s # <<>> /\ IsSpace(s[Len(s)]) THEN RStrip(SubSeq(s, 1, Len(s) - 1)) ELSE s

\* str.strip()
Strip(s) == RStrip(LStrip(s))

UpperChar(c) ==
    CASE c = "a" -> "A"
      [] c = "b" -> "B"
      [] c = "n" -> "N"
      [] OTHER -> c

\* str.upper()
Upper(s) == [i \in DOMAIN s |-> UpperChar(s[i])]

IsUpperText(s) == \A i \in DOMAIN s : s[i] \notin {"a", "b", "n"}

RECURSIVE NatStr(_)
NatStr(n) ==
    IF n < 10 THEN <<DigitChars[n + 1]>>
    ELSE NatStr(n \div 10) \o <<DigitChars[(n % 10) + 1]>>

\* str(n) of a Python int
IntStr(n) == IF n < 0 THEN <<"-">> \o NatStr(-n) ELSE NatStr(n)

Zeros(k) == [i \in 1..k |-> "0"]

\* str.zfill(width): zeros go after a leading sign
Zfill(s, width) ==
    IF Len(s) >= width THEN s
    ELSE IF s # <<>> /\ s[1] \in {"-", "+"}
         THEN <<s[1]>> \o Zeros(width - Len(s)) \o Tail(s)
         ELSE Zeros(width - Len(s)) \o s

RECURSIVE DigitsVal(_)
DigitsVal(s) ==
    IF s = <<>> THEN 0
    ELSE 10 * DigitsVal(SubSeq(s, 1, Len(s) - 1)) + DigitVal(s[Len(s)])

\* all texts over an alphabet, up to a length
TextsOver(alphabet, n) == UNION {[1..k -> alphabet] : k \in 0..n}

(* ---------------------------------------------------------------------- *)
(* Python floats                                                           *)
(* ---------------------------------------------------------------------- *)
Num(v) == [kind |-> "num", v |-> v]

Inf(sign) == [kind |-> "inf", v |-> sign]

NaN == [kind |-> "nan", v |-> 0]

Sign(v) == IF v < 0 THEN -1 ELSE IF v > 0 THEN 1 ELSE 0

AbsInt(v) == IF v < 0 THEN -v ELSE v

\* abs(x)
FAbs(x) == IF x.kind = "nan" THEN NaN ELSE [kind |-> x.kind, v |-> AbsInt(x.v)]

\* -x
FNeg(x) == IF x.kind = "nan" THEN NaN ELSE [kind |-> x.kind, v |-> -x.v]

\* x * y
FMul(x, y) ==
    IF x.kind = "nan" \/ y.kind = "nan" THEN NaN
    ELSE IF x.kind = "num" /\ y.kind = "num" THEN Num(x.v * y.v)
    ELSE IF Sign(x.v) * Sign(y.v) = 0 THEN NaN
    ELSE Inf(Sign(x.v) * Sign(y.v))

\* x == y (IEEE: a NaN equals nothing, itself included)
FEq(x, y) == x.kind # "nan" /\ y.kind # "nan" /\ x.kind = y.kind /\ x.v = y.v

\* x < 0
FNegative(x) == x.kind # "nan" /\ x.v < 0

\* x > 0
FPositive(x) == x.kind # "nan" /\ x.v > 0

\* the text with one leading sign removed
Unsigned(t) == IF t # <<>> /\ t[1] \in {"-", "+"} THEN Tail(t) ELSE t

TextSign(t) == IF t # <<>> /\ t[1] = "-" THEN -1 ELSE 1

IsIntLiteral(t) == Unsigned(t) # <<>> /\ \A i \in DOMAIN Unsigned(t) : IsDigit(Unsigned(t)[i])

IsNanLiteral(t) == Unsigned(t) = <<"n", "a", "n">>

IsInfLiteral(t) == Unsigned(t) = <<"i", "n", "f">>

\* float(t) for a stripped text; "bad" stands for ValueError
PyFloat(t) ==
    IF IsIntLiteral(t) THEN Num(TextSign(t) * DigitsVal(Unsigned(t)))
    ELSE IF IsNanLiteral(t) THEN NaN
    ELSE IF IsInfLiteral(t) THEN Inf(TextSign(t))
    ELSE [kind |-> "bad", v |-> 0]

\* parser._to_float
ToFloat(text) ==
    LET f == PyFloat(Strip(RemoveChar(text, ",")))
    IN  IF f.kind = "bad" THEN Num(0) ELSE f

(* ---------------------------------------------------------------------- *)
(* Transaction extractor (parser.py)                                       *)
(*                                                                         *)
(* A filing document holds the issuer's company and trading-symbol texts   *)
(* and its tables in document order.  A table has a kind ("nd" for         *)
(* non-derivative, "d" for derivative), the casing of its element name     *)
(* ("camel" for nonDerivativeTable, "Pascal" for NonDerivativeTable) and   *)
(* its transaction lines in document order.  A line has the casing of its  *)
(* element name and the texts of its code, share count, price and          *)
(* acquired/disposed flag.  Absent marks an element that is not found.     *)
(* The parser that builds the tree is "xml", or "html" when the xml parser *)
(* cannot be constructed and the code falls back to html.parser, which     *)
(* turns every element name into lower case.  Of a record's                *)
(* fields the model keeps transaction_code, shares, price_per_share,       *)
(* total_value, company, ticker, filing_url and filing_date.               *)
(* ---------------------------------------------------------------------- *)
Absent == <<"#absent">>

\* val.text if val else "0", then _to_float
NumberField(text) == IF text = Absent THEN ToFloat(<<"0">>) ELSE ToFloat(text)

\* tag.text.strip() if tag else ""
TextField(text) == IF text = Absent THEN <<>> ELSE Strip(text)

\* if acquired_disposed == "D": shares = -abs(shares)
DisposedSharesNoAbs(shares, ad) == IF ad = <<"D">> THEN FNeg(shares) ELSE shares

DisposedShares(shares, ad) == IF ad = <<"D">> THEN FNeg(FAbs(shares)) ELSE shares

\* total_value = abs(shares) * price
TotalValue(shares, price) == FMul(FAbs(shares), price)

\* parser._parse_transaction
ParseTransaction(line) ==
    LET shares == DisposedShares(NumberField(line.shares), TextField(line.ad))
        price == NumberField(line.price)
    IN  [transaction_code |-> TextField(line.code),
         shares |-> shares,
         price_per_share |-> price,
         total_value |-> TotalValue(shares, price)]

\* trade.update({company, ticker, filing_url})
IssuerFields(trade, company, ticker, url) ==
    [transaction_code |-> trade.transaction_code,
     shares |-> trade.shares,
     price_per_share |-> trade.price_per_share,
     total_value |-> trade.total_value,
     company |-> company,
     ticker |-> ticker,
     filing_url |-> url]

\* the parsers the tree may be built with: BeautifulSoup(xml_content, "xml"),
\* and BeautifulSoup(xml_content, "html.parser") when that raises
Parsers == {"xml", "html"}

\* the tree html.parser builds: every element name is in lower case, so the
\* issuer's issuerName and issuerTradingSymbol carry names no lookup asks for
LowerCased(doc) ==
    [company |-> Absent,
     ticker |-> Absent,
     tables |-> [i \in 1..Len(doc.tables) |->
                    [kind |-> doc.tables[i].kind,
                     tag |-> "lower",
                     lines |-> [j \in 1..Len(doc.tables[i].lines) |->
                                   [tag |-> "lower",
                                    code |-> doc.tables[i].lines[j].code,
                                    shares |-> doc.tables[i].lines[j].shares,
                                    price |-> doc.tables[i].lines[j].price,
                                    ad |-> doc.tables[i].lines[j].ad]]]]]

\* try: BeautifulSoup(..., "xml") except Exception: BeautifulSoup(..., "html.parser")
Soup(doc, parser) == IF parser = "xml" THEN doc ELSE LowerCased(doc)

\* soup.find(camelCase name) or soup.find(PascalCase name): the first table
\* of the kind with the camelCase name, else the first with the PascalCase
\* name, else none (a sequence of one table or of none)
FindTable(soup, kind) ==
    LET Named(tag) == SelectSeq(soup.tables, LAMBDA t : t.kind = kind /\ t.tag = tag)
    IN  IF Named("camel") # <<>> THEN <<Named("camel")[1]>>
        ELSE IF Named("Pascal") # <<>> THEN <<Named("Pascal")[1]>>
        ELSE <<>>

\* table.find_all(camelCase name) or table.find_all(PascalCase name): the
\* lines with the camelCase name, and only when there is none of them the
\* lines with the PascalCase name
FindAllTransactions(table) ==
    LET Named(tag) == SelectSeq(table.lines, LAMBDA l : l.tag = tag)
    IN  IF Named("camel") # <<>> THEN Named("camel") ELSE Named("Pascal")

\* if table: for txn in transactions
TableTransactions(soup, kind) ==
    IF FindTable(soup, kind) = <<>> THEN <<>>
    ELSE FindAllTransactions(FindTable(soup, kind)[1])

\* parse_form4_xml from the tree on
ParseSoup(soup, url) ==
    LET company == TextField(soup.company)
        ticker == Upper(TextField(soup.ticker))
        Rec(line) == IssuerFields(ParseTransaction(line), company, ticker, url)
        nd == TableTransactions(soup, "nd")
        d == TableTransactions(soup, "d")
    IN  [i \in 1..Len(nd) |-> Rec(nd[i])] \o [i \in 1..Len(d) |-> Rec(d[i])]

(* ---------------------------------------------------------------------- *)
(* Filing references from search hits (search_form4_filings_by_date,       *)
(* step 2)                                                                 *)
(* ---------------------------------------------------------------------- *)
UpperLetters ==
    {"A", "B", "C", "D", "E", "F", "G", "H", "I", "J", "K", "L", "M",
     "N", "O", "P", "Q", "R", "S", "T", "U", "V", "W", "X", "Y", "Z"}

Min(a, b) == IF a < b THEN a ELSE b

Max(a, b) == IF a > b THEN a ELSE b

StartsWith(s, prefix) ==
    Len(s) >= Len(prefix) /\ SubSeq(s, 1, Len(prefix)) = prefix

EndsWith(s, suffix) ==
    Len(s) >= Len(suffix) /\ SubSeq(s, Len(s) - Len(suffix) + 1, Len(s)) = suffix

Drop(s, k) == SubSeq(s, k + 1, Len(s))

\* re.search(r"\(([A-Z]{1,5})\)", name) matches at position i with k letters
TickerMatch(name, i, k) ==
    /\ i + k + 1 <= Len(name)
    /\ name[i] = "("
    /\ \A j \in 1..k : name[i + j] \in UpperLetters
    /\ name[i + k + 1] = ")"

\* scraper._extract_ticker_from_display_name
ExtractTicker(name) ==
    LET starts == {i \in 1..Len(name) : \E k \in 1..5 : TickerMatch(name, i, k)}
    IN  IF starts = {} THEN <<>>
        ELSE LET i == CHOOSE x \in starts : \A y \in starts : x <= y
                 k == CHOOSE x \in 1..5 : TickerMatch(name, i, x)
             IN  SubSeq(name, i + 1, i + k)

RECURSIVE RStripDigits(_)
RStripDigits(s) ==
    IF s # <<>> /\ IsDigit(s[Len(s)]) THEN RStripDigits(SubSeq(s, 1, Len(s) - 1)) ELSE s

\* re.sub(r"\s*\(CIK\s+\d+\)\s*$", "", raw)
DropCikSuffix(raw) ==
    LET t == RStrip(raw)
        inner == IF t # <<>> /\ t[Len(t)] = ")" THEN SubSeq(t, 1, Len(t) - 1) ELSE <<>>
        noDigits == RStripDigits(inner)
        noSpace == RStrip(noDigits)
    IN  IF /\ inner # <<>>
           /\ Len(noDigits) < Len(inner)
           /\ Len(noSpace) < Len(noDigits)
           /\ EndsWith(noSpace, <<"(", "C", "I", "K">>)
        THEN RStrip(SubSeq(noSpace, 1, Len(noSpace) - 4))
        ELSE raw

\* re.sub(r"\s*\(TICKER\)\s*", " ", company)
RECURSIVE SubTicker(_, _)
SubTicker(s, pat) ==
    IF s = <<>> THEN <<>>
    ELSE IF StartsWith(LStrip(s), pat)
         THEN <<" ">> \o SubTicker(LStrip(Drop(LStrip(s), Len(pat))), pat)
         ELSE <<Head(s)>> \o SubTicker(Tail(s), pat)

\* the company name of a display name
CleanCompany(raw) ==
    LET ticker == ExtractTicker(raw)
        company == DropCikSuffix(raw)
    IN  IF ticker # <<>> THEN Strip(SubTicker(company, <<"(">> \o ticker \o <<")">>))
        ELSE company

RECURSIVE LStripZeros(_)
LStripZeros(s) == IF s # <<>> /\ Head(s) = "0" THEN LStripZeros(Tail(s)) ELSE s

HasColon(id) == \E i \in 1..Len(id) : id[i] = ":"

FirstColon(id) == CHOOSE i \in 1..Len(id) : id[i] = ":" /\ \A j \in 1..(i - 1) : id[j] # ":"

ArchiveBase == "https://www.sec.gov/Archives/edgar/data"

\* f"{base}/{cik}/{accession_nodash}/{filename}"
FilingUrl(cik, accession, filename) ==
    <<ArchiveBase, "/">> \o cik \o <<"/">> \o RemoveChar(accession, "-") \o <<"/">> \o filename

\* a hit is skipped when its id has no colon or it names no entity
HitKept(hit) == HasColon(hit.id) /\ hit.ciks # <<>>

\* the filing reference of one kept hit
HitFiling(hit) ==
    LET c == FirstColon(hit.id)
        accession == SubSeq(hit.id, 1, c - 1)
        filename == Drop(hit.id, c)
        named == Len(hit.display_names) >= 2
    IN  [url |-> FilingUrl(LStripZeros(hit.ciks[1]), accession, filename),
         ticker |-> IF named THEN ExtractTicker(hit.display_names[2]) ELSE <<>>,
         company |-> IF named THEN CleanCompany(hit.display_names[2]) ELSE <<>>,
         filing_date |-> hit.file_date,
         accession |-> accession]

\* for hit in all_hits: ... filings.append(...)
ExtractFilings(hits) ==
    LET kept == SelectSeq(hits, HitKept)
    IN  [i \in 1..Len(kept) |-> HitFiling(kept[i])]

(* ---------------------------------------------------------------------- *)
(* State                                                                   *)
(* ---------------------------------------------------------------------- *)
VARIABLES
    entry,      \* the operation that was called
    pc,         \* its position
    arg,        \* the arguments of the call
    world,      \* the upstream service and the disk, as they are before the call
    result,     \* what the call returned
    cache,      \* the cache file company_tickers.json
    frame,      \* collect_insider_trades: mode and max_filings_per_ticker of
                \* the running invocation
    cikMap,     \* collect_insider_trades: cik_map
    tickerIdx,  \* collect_insider_trades: position in tickers
    offset,     \* search: the pagination offset
    allHits,    \* search: all_hits
    filings,    \* the filing references being worked on
    filingIdx,  \* position in filings
    allTrades,  \* all_trades
    calls,      \* the calls of progress_callback, in order
    log         \* the HTTP requests and the sleeps, in order

inputVars == <<entry, arg, world>>

resolverVars == <<cache, cikMap>>

searchVars == <<offset, allHits>>

loopVars == <<frame, tickerIdx, filings, filingIdx, allTrades, calls>>

vars == <<entry, pc, arg, world, result, cache, frame, cikMap, tickerIdx, offset,
          allHits, filings, filingIdx, allTrades, calls, log>>

None == <<"#none">>

\* one entry of the log: a request (kind "map", "subm", "doc", "search",
\* "latest") with its outcome, a sleep, or a call of progress_callback
Event(kind, key, ok, size, n, total, body) ==
    [kind |-> kind, key |-> key, ok |-> ok, size |-> size, n |-> n, total |-> total,
     body |-> body]

Sleep == Event("sleep", None, TRUE, 0, 0, 0, None)

\* a request that raised requests.RequestException
Failed(kind, key) == Event(kind, key, FALSE, 0, 0, 0, None)

\* a request that was answered with a body
Got(kind, key, body) == Event(kind, key, TRUE, 0, 0, 0, body)

NoFile == [exists |-> FALSE, age |-> 0, content |-> <<>>]

IdleSearch == offset = 0 /\ allHits = <<>>

IdleResolver == cache = NoFile /\ cikMap = None

IdleLoop ==
    /\ frame = None
    /\ tickerIdx = 1
    /\ filings = <<>>
    /\ filingIdx = 1
    /\ allTrades = <<>>
    /\ calls = <<>>

\* parser.parse_form4_xml, with the parser this installation ends up with
ParseForm4Xml(doc, url) == ParseSoup(Soup(doc, world.parser), url)

(* ---------------------------------------------------------------------- *)
(* _parse_transaction on one transaction line                              *)
(* ---------------------------------------------------------------------- *)
ShareChars == {"0", "5", "-", ",", " ", "n", "a"}

ShareTexts == TextsOver(ShareChars, MaxTextLen) \cup {Absent}

PriceTexts == {<<"2">>, <<"0">>, <<"n", "a", "n">>, Absent}

FlagTexts == {<<"D">>, <<"A">>, <<" ", "D">>, <<"d">>, Absent}

InitLine ==
    /\ entry = "line"
    /\ pc = "start"
    /\ arg \in [code : {<<"S">>}, shares : ShareTexts, price : PriceTexts, ad : FlagTexts]
    /\ world = None
    /\ result = None
    /\ log = <<>>
    /\ IdleSearch
    /\ IdleResolver
    /\ IdleLoop

ParseLine ==
    /\ entry = "line"
    /\ pc = "start"
    /\ result' = ParseTransaction(arg)
    /\ pc' = "done"
    /\ UNCHANGED <<inputVars, resolverVars, searchVars, loopVars, log>>

NextLine == ParseLine

SpecLine == InitLine /\ [][NextLine]_vars

(* ---------------------------------------------------------------------- *)
(* fetch_ticker_to_cik_map                                                 *)
(*                                                                         *)
(* world.directory is the upstream company_tickers.json: its entries in    *)
(* order, each with a ticker text and an integer cik_str.  The cache file  *)
(* is missing, or holds a map an earlier run wrote, with the age in        *)
(* seconds that the call measures.                                         *)
(* ---------------------------------------------------------------------- *)
CacheTtl == 86400

CikWidth == 10

\* os.path.exists(cache_path) and age < 86400
CacheFreshInclusive(c) == c.exists /\ c.age <= CacheTtl

CacheFresh(c) == c.exists /\ c.age < CacheTtl

\* mapping[key] = value
PutKey(m, key, value) == [k \in DOMAIN m \cup {key} |-> IF k = key THEN value ELSE m[k]]

\* entry["ticker"].upper()
MapKeyAsIs(ticker) == ticker

MapKey(ticker) == Upper(ticker)

\* str(entry["cik_str"]).zfill(10)
MapValueUnpadded(cik) == IntStr(cik)

MapValue(cik) == Zfill(IntStr(cik), CikWidth)

\* for entry in raw.values(): mapping[ticker] = cik
RECURSIVE BuildMap(_)
BuildMap(entries) ==
    IF entries = <<>> THEN <<>>
    ELSE LET last == entries[Len(entries)]
         IN  PutKey(BuildMap(SubSeq(entries, 1, Len(entries) - 1)),
                    MapKey(last.ticker), MapValue(last.cik_str))

TickerPc(idx, tickers) == IF idx <= Len(tickers) THEN "ticker" ELSE "return"

\* where the caller goes on once the map is there
AfterMap ==
    IF entry = "resolve" THEN "done"
    ELSE IF frame.mode = "watchlist" THEN TickerPc(1, arg.tickers)
    ELSE "latest"

\* the cache is younger than a day: it is returned as it is
MapCacheHit ==
    /\ pc = "map"
    /\ CacheFresh(cache)
    /\ cikMap' = cache.content
    /\ result' = IF entry = "resolve" THEN cache.content ELSE result
    /\ pc' = AfterMap
    /\ UNCHANGED <<inputVars, cache, searchVars, loopVars, log>>

\* the map is downloaded, built and written to the cache file
MapRebuild ==
    /\ pc = "map"
    /\ ~CacheFresh(cache)
    /\ LET mapping == BuildMap(world.directory)
       IN  /\ cache' = [exists |-> TRUE, age |-> 0, content |-> mapping]
           /\ cikMap' = mapping
           /\ result' = IF entry = "resolve" THEN mapping ELSE result
    /\ log' = Append(log, Got("map", None, world.directory))
    /\ pc' = AfterMap
    /\ UNCHANGED <<inputVars, searchVars, loopVars>>

\* the fallback a stale cache could have been
MapRebuildFailsUsesStale ==
    /\ pc = "map"
    /\ ~CacheFresh(cache)
    /\ log' = Append(log, Failed("map", None))
    /\ IF cache.exists
       THEN /\ cikMap' = cache.content
            /\ result' = IF entry = "resolve" THEN cache.content ELSE result
            /\ pc' = AfterMap
       ELSE pc' = "error" /\ UNCHANGED <<cikMap, result>>
    /\ UNCHANGED <<inputVars, cache, searchVars, loopVars>>

\* the download raises: the exception leaves the function and its caller
MapRebuildFails ==
    /\ pc = "map"
    /\ ~CacheFresh(cache)
    /\ log' = Append(log, Failed("map", None))
    /\ pc' = "error"
    /\ UNCHANGED <<inputVars, result, resolverVars, searchVars, loopVars>>

MaxEntries == 2

MaxAgeHours == 25

DirectoryTickers == {<<"a", "b">>, <<"A", "B">>, <<"n">>}

DirectoryCiks == {7, 320193, 2147483647}

DirectoryEntries == [ticker : DirectoryTickers, cik_str : DirectoryCiks]

Directories == TextsOver(DirectoryEntries, MaxEntries)

\* the ages around the 24 hours of the cache's window, and a new file
CacheAges == {0} \cup {h * 3600 + sec : h \in (MaxAgeHours - 2)..MaxAgeHours, sec \in {0, 3599}}

\* the maps an earlier run can have written
CachedMaps == {BuildMap(d) : d \in TextsOver(DirectoryEntries, 1)}

CacheFiles == {NoFile} \cup [exists : {TRUE}, age : CacheAges, content : CachedMaps]

InitResolve ==
    /\ entry = "resolve"
    /\ pc = "map"
    /\ arg = None
    /\ world \in [directory : Directories, cache : CacheFiles]
    /\ cache = world.cache
    /\ cikMap = None
    /\ result = None
    /\ log = <<>>
    /\ IdleSearch
    /\ IdleLoop

NextResolve == MapCacheHit \/ MapRebuild \/ MapRebuildFails

SpecResolve == InitResolve /\ [][NextResolve]_vars

\* the requests of the log
Requests == SelectSeq(log, LAMBDA e : e.kind \notin {"sleep", "call"})

\* C4: a finished call has made a network request exactly when the cache
\* file was missing or at least 86400 s old.  A younger cache is returned
\* as it is and the file is left alone; otherwise the map built from the
\* upstream directory is returned and the file holds that map and nothing
\* of its old content (when the download fails the file is left alone).
C4_CacheWindow ==
    (entry = "resolve" /\ pc \in {"done", "error"}) =>
        /\ (Requests # <<>>) <=> (~world.cache.exists \/ world.cache.age >= 86400)
        /\ (world.cache.exists /\ world.cache.age < 86400) =>
              /\ pc = "done"
              /\ result = world.cache.content
              /\ cache = world.cache
        /\ (pc = "done" /\ ~(world.cache.exists /\ world.cache.age < 86400)) =>
              /\ Len(Requests) = 1 /\ Requests[1].kind = "map" /\ Requests[1].ok
              /\ result = BuildMap(world.directory)
              /\ cache.exists /\ cache.content = BuildMap(world.directory)
        /\ pc = "error" => cache = world.cache

\* a cache of exactly 24 hours holding another map than upstream was rebuilt
C4_Witness ==
    /\ entry = "resolve" /\ pc = "done"
    /\ world.cache.exists /\ world.cache.age = 86400
    /\ world.cache.content # BuildMap(world.directory)
    /\ cache.content = BuildMap(world.directory)
    /\ Len(Requests) = 1

IsDigitText(s) == \A i \in DOMAIN s : IsDigit(s[i])

\* C6: every key of the map fetch_ticker_to_cik_map returns is uppercase and
\* its value is a string of 10 digits, whether the map came from the cache
\* or from a rebuild.
C6_MapShape ==
    (entry = "resolve" /\ pc = "done") =>
        \A k \in DOMAIN result :
            /\ IsUpperText(k)
            /\ Len(result[k]) = 10
            /\ IsDigitText(result[k])

\* a rebuilt map that holds a lower-case upstream ticker under its
\* upper-case key, with a padded identifier
C6_Witness ==
    /\ entry = "resolve" /\ pc = "done"
    /\ Requests # <<>>
    /\ \E i \in DOMAIN world.directory : world.directory[i].ticker = <<"a", "b">>
    /\ <<"A", "B">> \in DOMAIN result
    /\ result[<<"A", "B">>] = <<"0", "0", "0", "0", "0", "0", "0", "0", "0", "7">>

(* ---------------------------------------------------------------------- *)
(* search_form4_filings_by_date                                            *)
(*                                                                         *)
(* The upstream index holds world.total hits, the hit at position k being  *)
(* world.pattern repeated.  An "exact" upstream answers a page request     *)
(* (from, size) with the min(size, total - from) hits from that position   *)
(* on and reports world.total; a "loose" one may answer with any number of *)
(* hits up to size + 1 and report any total; a "ragged" one reports        *)
(* world.total and answers with no hit or with one hit fewer, exactly as   *)
(* many, or one hit more than asked for.  Any request may fail.            *)
(* ---------------------------------------------------------------------- *)
PageSize == 100

CorpusHit(k) == world.pattern[((k - 1) % Len(world.pattern)) + 1]

ExactCount(from, size) == Max(0, Min(size, world.total - from))

PageCounts(from, size) ==
    IF world.upstream = "exact" THEN {ExactCount(from, size)}
    ELSE IF world.upstream = "ragged" THEN {n \in 0..(size + 1) : n = 0 \/ n >= size - 1}
    ELSE 0..(size + 1)

PageTotals ==
    IF world.upstream \in {"exact", "ragged"} THEN {world.total} ELSE 0..(world.total + 1)

\* a page size that would ignore what is left of max_filings
RequestSizeFullPage(maxFilings, off) == PageSize

\* size = min(100, max_filings - offset)
RequestSize(maxFilings, off) == Min(PageSize, maxFilings - off)

\* while offset < max_filings
LoopGoesOn(off, maxFilings) == off < maxFilings

\* if offset + len(hits) >= total: break
LastPageStrict(off, n, total) == off + n > total

LastPage(off, n, total) == off + n >= total

AfterPage(off, maxFilings) == IF LoopGoesOn(off, maxFilings) THEN "search" ELSE "extract"

\* a failure that would discard the hits of the earlier pages
SearchPageFailsDropsHits ==
    /\ pc = "search"
    /\ log' = Append(log, Event("search", offset, FALSE,
                                RequestSize(arg.max_filings, offset), 0, 0, None))
    /\ allHits' = <<>>
    /\ pc' = "extract"
    /\ UNCHANGED <<inputVars, result, resolverVars, offset, loopVars>>

\* the request raises: the loop is left
SearchPageFails ==
    /\ pc = "search"
    /\ log' = Append(log, Event("search", offset, FALSE,
                                RequestSize(arg.max_filings, offset), 0, 0, None))
    /\ pc' = "extract"
    /\ UNCHANGED <<inputVars, result, resolverVars, searchVars, loopVars>>

\* an iteration that would wait after its request whatever the answer
SearchPageAlwaysDelays ==
    /\ pc = "search"
    /\ LET size == RequestSize(arg.max_filings, offset)
       IN  \E n \in PageCounts(offset, size), total \in PageTotals :
             LET hits == [i \in 1..n |-> CorpusHit(offset + i)]
                 got == Event("search", offset, TRUE, size, n, total, None)
             IN  /\ log' = log \o <<got, Sleep>>
                 /\ IF hits = <<>>
                    THEN /\ pc' = "extract"
                         /\ UNCHANGED <<offset, allHits>>
                    ELSE /\ allHits' = allHits \o hits
                         /\ IF LastPage(offset, n, total)
                            THEN /\ pc' = "extract"
                                 /\ UNCHANGED offset
                            ELSE /\ offset' = offset + n
                                 /\ pc' = AfterPage(offset + n, arg.max_filings)
    /\ UNCHANGED <<inputVars, result, resolverVars, loopVars>>

\* one iteration of the loop with an answered request
SearchPage ==
    /\ pc = "search"
    /\ LET size == RequestSize(arg.max_filings, offset)
       IN  \E n \in PageCounts(offset, size), total \in PageTotals :
             LET hits == [i \in 1..n |-> CorpusHit(offset + i)]
                 got == Event("search", offset, TRUE, size, n, total, None)
             IN  IF hits = <<>>
                 THEN /\ pc' = "extract"
                      /\ log' = Append(log, got)
                      /\ UNCHANGED <<offset, allHits>>
                 ELSE /\ allHits' = allHits \o hits
                      /\ IF LastPage(offset, n, total)
                         THEN /\ pc' = "extract"
                              /\ log' = Append(log, got)
                              /\ UNCHANGED offset
                         ELSE /\ offset' = offset + n
                              /\ log' = log \o <<got, Sleep>>
                              /\ pc' = AfterPage(offset + n, arg.max_filings)
    /\ UNCHANGED <<inputVars, result, resolverVars, loopVars>>

\* step 2, and the return
SearchExtract ==
    /\ pc = "extract"
    /\ filings' = ExtractFilings(allHits)
    /\ IF entry = "search"
       THEN pc' = "done" /\ result' = ExtractFilings(allHits)
       ELSE /\ pc' = IF ExtractFilings(allHits) = <<>> THEN "nofilings" ELSE "datedoc"
            /\ UNCHANGED result
    /\ UNCHANGED <<inputVars, resolverVars, searchVars, frame, tickerIdx, filingIdx,
                   allTrades, calls, log>>

\* a hit that names its entity and carries no display names
PlainHit ==
    [id |-> <<"1", "-", "2", ":", "f">>,
     ciks |-> << <<"0", "7">> >>,
     display_names |-> <<>>,
     file_date |-> <<"2026-01-05">>]

MaxFilings == 201

MaxTotal == 201

\* the sizes tried for max_filings and for the upstream's total: the values
\* around every multiple of 25, and the 130 of the specification's example
Sizes(max) == {v \in 0..max : v % 25 \in {0, 1, 24} \/ v = 130}

InitSearch ==
    /\ entry = "search"
    /\ pc = "search"
    /\ arg \in [max_filings : Sizes(MaxFilings) \ {0}]
    /\ world \in [total : Sizes(MaxTotal), pattern : {<<PlainHit>>}, upstream : {"exact"}]
    /\ result = None
    /\ log = <<>>
    /\ IdleSearch
    /\ IdleResolver
    /\ IdleLoop

NextSearch == SearchPageFails \/ SearchPage \/ SearchExtract

SpecSearch == InitSearch /\ [][NextSearch]_vars

\* the page requests of the log
Pages == SelectSeq(log, LAMBDA e : e.kind = "search")

\* every page request was answered as an exact upstream answers
AnsweredExactly ==
    \A i \in 1..Len(Pages) :
        /\ Pages[i].ok
        /\ Pages[i].n = ExactCount(Pages[i].key, Pages[i].size)
        /\ Pages[i].total = world.total

CeilDiv(a, b) == (a + b - 1) \div b

\* C1: when every page is answered with min(size, total - offset) hits and
\* the total T, a finished search with max_filings M has issued exactly
\* max(1, ceil(min(T, M) / 100)) page requests, and no page request ever
\* follows a page with offset + returned count >= total.
C1_PageCount ==
    /\ (entry = "search" /\ pc = "done" /\ AnsweredExactly)
          => Len(Pages) = Max(1, CeilDiv(Min(world.total, arg.max_filings), 100))
    /\ entry = "search" =>
          \A i \in 1..(Len(Pages) - 1) :
              /\ Pages[i].ok
              /\ ~LastPage(Pages[i].key, Pages[i].n, Pages[i].total)

\* a finished search over 130 hits with page size 100: pages of 100 and 30
C1_Witness ==
    /\ entry = "search" /\ pc = "done" /\ AnsweredExactly
    /\ world.total = 130
    /\ Len(Pages) = 2
    /\ Pages[1].size = 100 /\ Pages[1].n = 100
    /\ Pages[2].n = 30

(* ---------------------------------------------------------------------- *)
(* The responses of the upstream service to the collection strategies      *)
(* ---------------------------------------------------------------------- *)
LineBuy ==
    [tag |-> "camel", code |-> <<"P">>, shares |-> <<"5">>, price |-> <<"2">>,
     ad |-> <<"A">>]

LineSell ==
    [tag |-> "camel", code |-> <<"S">>, shares |-> <<"5">>, price |-> <<"2">>,
     ad |-> <<"D">>]

LineNan ==
    [tag |-> "camel", code |-> <<"S">>, shares |-> <<"n", "a", "n">>, price |-> <<"2">>,
     ad |-> <<"D">>]

Table(kind, tag, lines) == [kind |-> kind, tag |-> tag, lines |-> lines]

\* a filing of issuer "b" with a line in each table
DocTwo ==
    [company |-> <<"C">>, ticker |-> <<"b">>,
     tables |-> <<Table("nd", "camel", <<LineBuy>>), Table("d", "camel", <<LineSell>>)>>]

\* a filing without issuer fields whose only share count reads "nan"
DocNan ==
    [company |-> Absent, ticker |-> Absent,
     tables |-> <<Table("nd", "camel", <<LineNan>>)>>]

Docs == {DocTwo, DocNan}

EntryA ==
    [form |-> <<"4">>, accessionNumber |-> <<"1", "-", "2">>,
     filingDate |-> <<"2026-01-05">>, primaryDocument |-> <<"f">>]

EntryAmend ==
    [form |-> <<"4", "/", "A">>, accessionNumber |-> <<"3", "-", "4">>,
     filingDate |-> <<"2026-01-06">>, primaryDocument |-> <<"g">>]

EntryB ==
    [form |-> <<"4">>, accessionNumber |-> <<"5", "-", "6">>,
     filingDate |-> <<"2026-01-07">>, primaryDocument |-> <<"h">>]

HistoryEntries == {EntryA, EntryAmend, EntryB}

MaxHistory == 2

\* filings.recent of a submission history: parallel arrays
HistoryOf(entries) ==
    [form |-> [i \in 1..Len(entries) |-> entries[i].form],
     accessionNumber |-> [i \in 1..Len(entries) |-> entries[i].accessionNumber],
     filingDate |-> [i \in 1..Len(entries) |-> entries[i].filingDate],
     primaryDocument |-> [i \in 1..Len(entries) |-> entries[i].primaryDocument]]

Histories == {HistoryOf(es) : es \in TextsOver(HistoryEntries, MaxHistory)}

(* ---------------------------------------------------------------------- *)
(* fetch_form4_filings_for_cik                                             *)
(* ---------------------------------------------------------------------- *)
\* if form == "4"
IsForm4Prefix(form) == form # <<>> /\ form[1] = "4"

IsForm4(form) == form = <<"4">>

Form4Filings(history, cik, ticker) ==
    LET ix == SelectSeq([i \in 1..Len(history.form) |-> i],
                        LAMBDA i : IsForm4(history.form[i]))
    IN  [k \in 1..Len(ix) |->
            [accessionNumber |-> history.accessionNumber[ix[k]],
             filingDate |-> history.filingDate[ix[k]],
             primaryDocument |-> history.primaryDocument[ix[k]],
             url |-> FilingUrl(cik, history.accessionNumber[ix[k]],
                               history.primaryDocument[ix[k]]),
             ticker |-> ticker]]

(* ---------------------------------------------------------------------- *)
(* collect_insider_trades                                                  *)
(* ---------------------------------------------------------------------- *)
DefaultMaxFilings == 10

\* filings[:max_filings_per_ticker]
Truncate(list, k) == SubSeq(list, 1, Min(k, Len(list)))

\* ticker = ticker.upper()
CurrentTicker == Upper(arg.tickers[tickerIdx])

\* cik = cik_map.get(ticker); if not cik: continue
Resolved(m, ticker) == ticker \in DOMAIN m /\ m[ticker] # <<>>

\* an overwrite that would keep a ticker the document carries
WatchFieldsKeepParsed(trade, ticker, filing) ==
    [transaction_code |-> trade.transaction_code,
     shares |-> trade.shares,
     price_per_share |-> trade.price_per_share,
     total_value |-> trade.total_value,
     company |-> trade.company,
     ticker |-> IF trade.ticker # <<>> THEN trade.ticker ELSE ticker,
     filing_url |-> trade.filing_url,
     filing_date |-> filing.filingDate]

\* trade["ticker"] = ticker; trade["filing_date"] = filing["filingDate"]
WatchFields(trade, ticker, filing) ==
    [transaction_code |-> trade.transaction_code,
     shares |-> trade.shares,
     price_per_share |-> trade.price_per_share,
     total_value |-> trade.total_value,
     company |-> trade.company,
     ticker |-> ticker,
     filing_url |-> trade.filing_url,
     filing_date |-> filing.filingDate]

WatchTrades(doc, ticker, filing) ==
    LET trades == ParseForm4Xml(doc, filing.url)
    IN  [i \in 1..Len(trades) |-> WatchFields(trades[i], ticker, filing)]

\* the ticker has no identifier: it is passed over
TickerUnresolved ==
    /\ pc = "ticker"
    /\ ~Resolved(cikMap, CurrentTicker)
    /\ tickerIdx' = tickerIdx + 1
    /\ pc' = TickerPc(tickerIdx + 1, arg.tickers)
    /\ UNCHANGED <<inputVars, result, resolverVars, searchVars, frame, filings,
                   filingIdx, allTrades, calls, log>>

\* a failed history fetch that would end the run
TickerHistoryFailsAborts ==
    /\ pc = "ticker"
    /\ Resolved(cikMap, CurrentTicker)
    /\ log' = log \o <<Sleep, Failed("subm", CurrentTicker)>>
    /\ pc' = "return"
    /\ UNCHANGED <<inputVars, result, resolverVars, searchVars, frame, tickerIdx,
                   filings, filingIdx, allTrades, calls>>

\* the submission history cannot be fetched: on to the next ticker
TickerHistoryFails ==
    /\ pc = "ticker"
    /\ Resolved(cikMap, CurrentTicker)
    /\ log' = log \o <<Sleep, Failed("subm", CurrentTicker)>>
    /\ tickerIdx' = tickerIdx + 1
    /\ pc' = TickerPc(tickerIdx + 1, arg.tickers)
    /\ UNCHANGED <<inputVars, result, resolverVars, searchVars, frame, filings,
                   filingIdx, allTrades, calls>>

\* the submission history is fetched, filtered and cut to the maximum
TickerHistory ==
    /\ pc = "ticker"
    /\ Resolved(cikMap, CurrentTicker)
    /\ \E history \in Histories :
         LET found == Form4Filings(history, cikMap[CurrentTicker], CurrentTicker)
             kept == Truncate(found, frame.max)
         IN  /\ filings' = kept
             /\ filingIdx' = 1
             /\ log' = log \o <<Sleep, Got("subm", CurrentTicker, history)>>
             /\ IF kept = <<>>
                THEN /\ tickerIdx' = tickerIdx + 1
                     /\ pc' = TickerPc(tickerIdx + 1, arg.tickers)
                ELSE /\ pc' = "doc"
                     /\ UNCHANGED tickerIdx
    /\ UNCHANGED <<inputVars, result, resolverVars, searchVars, frame, allTrades, calls>>

\* where the filing loop goes after the filing at filingIdx
AfterWatchDoc ==
    IF filingIdx + 1 <= Len(filings) THEN "doc" ELSE TickerPc(tickerIdx + 1, arg.tickers)

NextTickerIdx == IF filingIdx + 1 <= Len(filings) THEN tickerIdx ELSE tickerIdx + 1

\* a failed download that would end the run
WatchDocFailsAborts ==
    /\ pc = "doc"
    /\ log' = log \o <<Sleep, Failed("doc", filings[filingIdx])>>
    /\ pc' = "return"
    /\ UNCHANGED <<inputVars, result, resolverVars, searchVars, frame, tickerIdx,
                   filings, filingIdx, allTrades, calls>>

\* fetch_form4_xml returns None: the filing is passed over
WatchDocFails ==
    /\ pc = "doc"
    /\ log' = log \o <<Sleep, Failed("doc", filings[filingIdx])>>
    /\ filingIdx' = filingIdx + 1
    /\ tickerIdx' = NextTickerIdx
    /\ pc' = AfterWatchDoc
    /\ UNCHANGED <<inputVars, result, resolverVars, searchVars, frame, filings,
                   allTrades, calls>>

\* a download that would not wait first
WatchDocNoDelay ==
    /\ pc = "doc"
    /\ \E doc \in Docs :
         /\ log' = Append(log, Got("doc", filings[filingIdx], doc))
         /\ allTrades' = allTrades \o WatchTrades(doc, CurrentTicker, filings[filingIdx])
    /\ filingIdx' = filingIdx + 1
    /\ tickerIdx' = NextTickerIdx
    /\ pc' = AfterWatchDoc
    /\ UNCHANGED <<inputVars, result, resolverVars, searchVars, frame, filings, calls>>

\* the document is fetched and parsed, and its records are added
WatchDoc ==
    /\ pc = "doc"
    /\ \E doc \in Docs :
         /\ log' = log \o <<Sleep, Got("doc", filings[filingIdx], doc)>>
         /\ allTrades' = allTrades \o WatchTrades(doc, CurrentTicker, filings[filingIdx])
    /\ filingIdx' = filingIdx + 1
    /\ tickerIdx' = NextTickerIdx
    /\ pc' = AfterWatchDoc
    /\ UNCHANGED <<inputVars, result, resolverVars, searchVars, frame, filings, calls>>

\* mode "latest": the search answers, and none of its hits is used
LatestSearch ==
    /\ pc = "latest"
    /\ log' = Append(log, Got("latest", None, None))
    /\ pc' = "return"
    /\ UNCHANGED <<inputVars, result, resolverVars, searchVars, loopVars>>

\* mode "latest": the search fails, and the function calls itself with
\* mode "watchlist" and the default max_filings_per_ticker
LatestSearchFails ==
    /\ pc = "latest"
    /\ log' = Append(log, Failed("latest", None))
    /\ frame' = [mode |-> "watchlist", max |-> DefaultMaxFilings]
    /\ pc' = "map"
    /\ UNCHANGED <<inputVars, result, resolverVars, searchVars, tickerIdx, filings,
                   filingIdx, allTrades, calls>>

\* return all_trades
CollectReturn ==
    /\ pc = "return"
    /\ result' = allTrades
    /\ pc' = "done"
    /\ UNCHANGED <<inputVars, resolverVars, searchVars, loopVars, log>>

MaxTickers == 2

MaxPerTicker == 2

WatchTickers == {<<"a", "b">>, <<"n">>}

WatchDirectory == <<[ticker |-> <<"A", "b">>, cik_str |-> 7]>>

\* no file, a file of an hour ago, and a file of 25 hours ago that holds
\* another identifier
WatchCaches ==
    {NoFile,
     [exists |-> TRUE, age |-> 3600, content |-> BuildMap(WatchDirectory)],
     [exists |-> TRUE, age |-> 90000,
      content |-> BuildMap(<<[ticker |-> <<"A", "B">>, cik_str |-> 5]>>)]}

InitWatch ==
    /\ entry = "watch"
    /\ pc = "map"
    /\ arg \in [tickers : TextsOver(WatchTickers, MaxTickers),
                mode : {"watchlist", "latest"},
                max_filings_per_ticker : 1..MaxPerTicker]
    /\ world \in [directory : {WatchDirectory}, cache : WatchCaches, parser : Parsers]
    /\ cache = world.cache
    /\ cikMap = None
    /\ frame = [mode |-> arg.mode, max |-> arg.max_filings_per_ticker]
    /\ result = None
    /\ log = <<>>
    /\ tickerIdx = 1
    /\ filings = <<>>
    /\ filingIdx = 1
    /\ allTrades = <<>>
    /\ calls = <<>>
    /\ IdleSearch

NextWatch ==
    \/ MapCacheHit
    \/ MapRebuild
    \/ MapRebuildFails
    \/ TickerUnresolved
    \/ TickerHistoryFails
    \/ TickerHistory
    \/ WatchDocFails
    \/ WatchDoc
    \/ LatestSearch
    \/ LatestSearchFails
    \/ CollectReturn

SpecWatch == InitWatch /\ [][NextWatch]_vars

(* ---------------------------------------------------------------------- *)
(* collect_all_form4_by_date                                               *)
(* ---------------------------------------------------------------------- *)
\* if not trade.get("ticker") and filing["ticker"]: trade["ticker"] = ...
FilledInAlways(parsed, fromFiling) == IF fromFiling # <<>> THEN fromFiling ELSE parsed

FilledIn(parsed, fromFiling) ==
    IF parsed = <<>> /\ fromFiling # <<>> THEN fromFiling ELSE parsed

DateFields(trade, filing) ==
    [transaction_code |-> trade.transaction_code,
     shares |-> trade.shares,
     price_per_share |-> trade.price_per_share,
     total_value |-> trade.total_value,
     company |-> FilledIn(trade.company, filing.company),
     ticker |-> FilledIn(trade.ticker, filing.ticker),
     filing_url |-> trade.filing_url,
     filing_date |-> filing.filing_date]

DateTrades(doc, filing) ==
    LET trades == ParseForm4Xml(doc, filing.url)
    IN  [i \in 1..Len(trades) |-> DateFields(trades[i], filing)]

\* if progress_callback: progress_callback(i, total)
CalledOneAhead(i, total) == IF arg.callback THEN Append(calls, <<i + 1, total>>) ELSE calls

Called(i, total) == IF arg.callback THEN Append(calls, <<i, total>>) ELSE calls

\* the call as the log shows it
CallLog(i, total) ==
    IF arg.callback THEN <<Event("call", <<i, total>>, TRUE, 0, 0, 0, None)>> ELSE <<>>

AfterDateDoc == IF filingIdx + 1 <= Len(filings) THEN "datedoc" ELSE "datereturn"

\* if not filings: return []
DateNoFilings ==
    /\ pc = "nofilings"
    /\ result' = <<>>
    /\ pc' = "done"
    /\ UNCHANGED <<inputVars, resolverVars, searchVars, loopVars, log>>

\* a failed download that would end the run
DateDocFailsAborts ==
    /\ pc = "datedoc"
    /\ calls' = Called(filingIdx - 1, Len(filings))
    /\ log' = log \o CallLog(filingIdx - 1, Len(filings))
                   \o <<Sleep, Failed("doc", filings[filingIdx])>>
    /\ pc' = "datereturn"
    /\ UNCHANGED <<inputVars, result, resolverVars, searchVars, frame, tickerIdx,
                   filings, filingIdx, allTrades>>

\* fetch_form4_xml returns None: the filing is passed over
DateDocFails ==
    /\ pc = "datedoc"
    /\ calls' = Called(filingIdx - 1, Len(filings))
    /\ log' = log \o CallLog(filingIdx - 1, Len(filings))
                   \o <<Sleep, Failed("doc", filings[filingIdx])>>
    /\ filingIdx' = filingIdx + 1
    /\ pc' = AfterDateDoc
    /\ UNCHANGED <<inputVars, result, resolverVars, searchVars, frame, tickerIdx,
                   filings, allTrades>>

\* the document is fetched and parsed, and its records are added
DateDoc ==
    /\ pc = "datedoc"
    /\ calls' = Called(filingIdx - 1, Len(filings))
    /\ \E doc \in Docs :
         /\ log' = log \o CallLog(filingIdx - 1, Len(filings))
                        \o <<Sleep, Got("doc", filings[filingIdx], doc)>>
         /\ allTrades' = allTrades \o DateTrades(doc, filings[filingIdx])
    /\ filingIdx' = filingIdx + 1
    /\ pc' = AfterDateDoc
    /\ UNCHANGED <<inputVars, result, resolverVars, searchVars, frame, tickerIdx, filings>>

\* progress_callback(total, total); return all_trades
DateReturn ==
    /\ pc = "datereturn"
    /\ calls' = Called(Len(filings), Len(filings))
    /\ log' = log \o CallLog(Len(filings), Len(filings))
    /\ result' = allTrades
    /\ pc' = "done"
    /\ UNCHANGED <<inputVars, resolverVars, searchVars, frame, tickerIdx, filings,
                   filingIdx, allTrades>>

\* a hit with the display names of issuer "AB", company "C"
NamedHit ==
    [id |-> <<"7", "-", "8", ":", "g">>,
     ciks |-> << <<"0", "0", "9">> >>,
     display_names |->
        << <<"x">>,
           <<"C", " ", " ", "(", "A", "B", ")", " ", " ", "(", "C", "I", "K", " ", "0", "9", ")">> >>,
     file_date |-> <<"2026-01-06">>]

\* a hit whose id holds no colon
NoColonHit ==
    [id |-> <<"7", "-", "8">>,
     ciks |-> << <<"0", "0", "9">> >>,
     display_names |-> <<>>,
     file_date |-> <<"2026-01-06">>]

\* a hit that names no entity
NoEntityHit ==
    [id |-> <<"7", "-", "8", ":", "g">>,
     ciks |-> <<>>,
     display_names |-> <<>>,
     file_date |-> <<"2026-01-06">>]

HitPatterns ==
    {<<NamedHit>>, <<PlainHit, NamedHit>>, <<NoColonHit, NamedHit>>, <<NoEntityHit, PlainHit>>}

MaxDateFilings == 2

MaxDateTotal == 2

InitDate ==
    /\ entry = "date"
    /\ pc = "search"
    /\ arg \in [max_filings : 1..MaxDateFilings, callback : BOOLEAN]
    /\ world \in [total : 0..MaxDateTotal, pattern : HitPatterns,
                  upstream : {"exact", "loose"}, parser : Parsers]
    /\ result = None
    /\ log = <<>>
    /\ IdleSearch
    /\ IdleResolver
    /\ IdleLoop

NextDate ==
    \/ SearchPageFails
    \/ SearchPage
    \/ SearchExtract
    \/ DateNoFilings
    \/ DateDocFails
    \/ DateDoc
    \/ DateReturn

SpecDate == InitDate /\ [][NextDate]_vars

(* ---------------------------------------------------------------------- *)
(* Both strategies                                                         *)
(* ---------------------------------------------------------------------- *)
InitCollect == InitWatch \/ InitDate

NextCollect ==
    \/ MapCacheHit
    \/ MapRebuild
    \/ MapRebuildFails
    \/ TickerUnresolved
    \/ TickerHistoryFails
    \/ TickerHistory
    \/ WatchDocFails
    \/ WatchDoc
    \/ LatestSearch
    \/ LatestSearchFails
    \/ CollectReturn
    \/ SearchPageFails
    \/ SearchPage
    \/ SearchExtract
    \/ DateNoFilings
    \/ DateDocFails
    \/ DateDoc
    \/ DateReturn

SpecCollect == InitCollect /\ [][NextCollect]_vars

\* the document requests and the submission-history requests of the log
DocEvents == SelectSeq(log, LAMBDA e : e.kind = "doc")

SubmEvents == SelectSeq(log, LAMBDA e : e.kind = "subm")

Keys(events) == [i \in 1..Len(events) |-> events[i].key]

\* the records one document request contributes: those of its document,
\* none when the download failed
Contribution(e) ==
    IF ~e.ok THEN <<>>
    ELSE IF entry = "watch" THEN WatchTrades(e.body, e.key.ticker, e.key)
    ELSE DateTrades(e.body, e.key)

RECURSIVE Contributions(_)
Contributions(events) ==
    IF events = <<>> THEN <<>>
    ELSE Contributions(SubSeq(events, 1, Len(events) - 1))
         \o Contribution(events[Len(events)])

\* the filings a fetched submission history names, cut to the maximum
RECURSIVE Listed(_)
Listed(events) ==
    IF events = <<>> THEN <<>>
    ELSE LET e == events[Len(events)]
         IN  Listed(SubSeq(events, 1, Len(events) - 1))
             \o (IF e.ok
                 THEN Truncate(Form4Filings(e.body, cikMap[e.key], e.key), frame.max)
                 ELSE <<>>)

\* the filings the run discovered, in discovery order
Discovered == IF entry = "watch" THEN Listed(SubmEvents) ELSE filings

\* C2: in both strategies a failed document download only passes that
\* document over: the run ends in an error for no other reason than a failed
\* identifier-map download, a finished run has requested every discovered
\* filing in discovery order, and it returns exactly the records of the
\* documents that were downloaded, in that order.
C2_FailedDocIsSkipped ==
    /\ pc = "error" => (log # <<>> /\ log[Len(log)].kind = "map")
    /\ (entry \in {"watch", "date"} /\ pc = "done") =>
          /\ Keys(DocEvents) = Discovered
          /\ result = Contributions(DocEvents)

\* a finished watchlist run whose first download failed and whose second
\* download gave records
C2_Witness ==
    /\ entry = "watch" /\ pc = "done"
    /\ Len(DocEvents) >= 2
    /\ ~DocEvents[1].ok
    /\ DocEvents[2].ok
    /\ result # <<>>

\* the watchlist tickers that have an identifier, in upper case
ResolvedTickers ==
    SelectSeq([i \in 1..Len(arg.tickers) |-> Upper(arg.tickers[i])],
              LAMBDA t : Resolved(cikMap, t))

\* C3: in watchlist mode the request after a failed submission-history
\* request is never a document request (it is the history request of the
\* next ticker), a finished run has requested the history of every ticker
\* that has an identifier, and at every moment all_trades holds the records
\* of all documents downloaded so far.
C3_HistoryFailureSkipsTicker ==
    entry = "watch" =>
        /\ \A i \in 1..Len(Requests) :
              (Requests[i].kind = "subm" /\ ~Requests[i].ok) =>
                  (i = Len(Requests) \/ Requests[i + 1].kind = "subm")
        /\ (pc = "done" /\ frame.mode = "watchlist") => Keys(SubmEvents) = ResolvedTickers
        /\ allTrades = Contributions(DocEvents)
        /\ pc = "done" => result = allTrades

\* the first ticker's history failed, the second ticker's was fetched and
\* its document gave records
C3_Witness ==
    /\ entry = "watch" /\ pc = "done"
    /\ Len(SubmEvents) = 2
    /\ ~SubmEvents[1].ok
    /\ SubmEvents[2].ok
    /\ result # <<>>

\* C5: in collect_insider_trades a failed identifier-map download ends the
\* run in an error, and only that does: nothing is returned, no map is
\* used (the stale cache file neither), no submission history and no
\* document is requested, and the cache file is left as it was.
C5_RebuildFailureIsFatal ==
    entry = "watch" =>
        /\ pc = "error" <=> (\E i \in 1..Len(log) : log[i].kind = "map" /\ ~log[i].ok)
        /\ pc = "error" =>
              /\ result = None
              /\ cikMap = None
              /\ allTrades = <<>>
              /\ \A i \in 1..Len(Requests) : Requests[i].kind \notin {"subm", "doc"}
              /\ cache = world.cache

\* the download failed while a stale cache file knew the first ticker
C5_Witness ==
    /\ entry = "watch" /\ pc = "error"
    /\ world.cache.exists /\ world.cache.age >= 86400
    /\ arg.tickers # <<>>
    /\ Upper(arg.tickers[1]) \in DOMAIN world.cache.content

\* the acquired/disposed flag of the line that was parsed
LineFlag == TextField(arg.ad)

\* the share count the line's text stands for
LineShares == NumberField(arg.shares)

\* C7 as claimed: with the flag "D" the share count of the record is
\* negative for every input share value, zero included.
C7_DisposedIsNegative ==
    (entry = "line" /\ pc = "done" /\ LineFlag = <<"D">>) => FNegative(result.shares)

\* C7: with the flag "D" the share count of the record is never positive,
\* and it is negative whenever the input share value is a number other
\* than zero, whatever its sign.
C7_DisposedNeverPositive ==
    (entry = "line" /\ pc = "done" /\ LineFlag = <<"D">>) =>
        /\ ~FPositive(result.shares)
        /\ (LineShares.kind # "nan" /\ LineShares.v # 0) => FNegative(result.shares)

\* a disposed line whose share text was already negative
C7_Witness ==
    /\ entry = "line" /\ pc = "done" /\ LineFlag = <<"D">>
    /\ arg.shares = <<"-", "5">>
    /\ result.shares = Num(-5)

\* C8: every record a finished collection returns has
\* total_value == abs(shares) * price_per_share.
C8_TotalValue ==
    (entry \in {"watch", "date"} /\ pc = "done") =>
        \A i \in 1..Len(result) :
            FEq(result[i].total_value,
                FMul(FAbs(result[i].shares), result[i].price_per_share))

\* C9 as claimed: a finished run of either strategy that fetched documents
\* has invoked the callback before the first and after every one of them.
C9_BothStrategiesReport ==
    (pc = "done" /\ DocEvents # <<>>
        /\ (entry = "watch" \/ (entry = "date" /\ arg.callback))) =>
        /\ Len(calls) = Len(DocEvents) + 1
        /\ calls[1][1] = 0

\* the calls of the callback that the log shows before position j
CallsBefore(j) == SelectSeq(SubSeq(log, 1, j - 1), LAMBDA e : e.kind = "call")

DocsBefore(j) == SelectSeq(SubSeq(log, 1, j - 1), LAMBDA e : e.kind = "doc")

\* C9: only the date-range strategy takes a callback.  It invokes it with
\* (k, N) for k = 0, 1, ... in order, N being the number of filings: before
\* the first document request the call (0, N) was made, before every
\* later one the call for the documents done so far, and a finished run has
\* made the call (N, N).  Without a callback, and in the watchlist
\* strategy, nothing is invoked.
C9_DateRangeReports ==
    /\ entry = "watch" => calls = <<>>
    /\ (entry = "date" /\ ~arg.callback) => calls = <<>>
    /\ (entry = "date" /\ arg.callback) =>
          /\ \A k \in 1..Len(calls) : calls[k] = <<k - 1, Len(filings)>>
          /\ Keys(SelectSeq(log, LAMBDA e : e.kind = "call")) = calls
          /\ \A j \in 1..Len(log) :
                log[j].kind = "doc" => Len(CallsBefore(j)) = Len(DocsBefore(j)) + 1
          /\ (pc = "done" /\ filings # <<>>) => Len(calls) = Len(filings) + 1

\* a finished date-range run over two filings made the calls (0, 2), (1, 2)
\* and (2, 2)
C9_Witness ==
    /\ entry = "date" /\ pc = "done" /\ arg.callback
    /\ calls = << <<0, 2>>, <<1, 2>>, <<2, 2>> >>

\* the parsed records of the downloaded documents, each with its filing
RECURSIVE ParsedWithFiling(_)
ParsedWithFiling(events) ==
    IF events = <<>> THEN <<>>
    ELSE LET e == events[Len(events)]
             parsed == IF e.ok THEN ParseForm4Xml(e.body, e.key.url) ELSE <<>>
         IN  ParsedWithFiling(SubSeq(events, 1, Len(events) - 1))
             \o [i \in 1..Len(parsed) |-> [parsed |-> parsed[i], filing |-> e.key]]

\* C10: every record the date-range strategy returns has the filing date of
\* its filing reference, the parsed ticker when that is not empty and else
\* the reference's ticker, and the same for the company.
C10_DateRangeFields ==
    (entry = "date" /\ pc = "done") =>
        LET from == ParsedWithFiling(DocEvents)
        IN  /\ Len(result) = Len(from)
            /\ \A i \in 1..Len(result) :
                  /\ result[i].filing_date = from[i].filing.filing_date
                  /\ result[i].ticker =
                        IF from[i].parsed.ticker # <<>> THEN from[i].parsed.ticker
                        ELSE from[i].filing.ticker
                  /\ result[i].company =
                        IF from[i].parsed.company # <<>> THEN from[i].parsed.company
                        ELSE from[i].filing.company

\* a run that returned a record keeping its parsed ticker "B" although the
\* reference says "AB", and a record that took "AB" from the reference
C10_Witness ==
    /\ entry = "date" /\ pc = "done"
    /\ \E i \in 1..Len(result) :
          /\ result[i].ticker = <<"B">>
          /\ ParsedWithFiling(DocEvents)[i].filing.ticker = <<"A", "B">>
    /\ \E i \in 1..Len(result) :
          /\ result[i].ticker = <<"A", "B">>
          /\ ParsedWithFiling(DocEvents)[i].parsed.ticker = <<>>

(* ---------------------------------------------------------------------- *)
(* The watchlist strategy, ticker by ticker                                *)
(* ---------------------------------------------------------------------- *)
\* the ticker whose history was requested last in a piece of the log
Owner(events) ==
    LET subms == SelectSeq(events, LAMBDA e : e.kind = "subm")
    IN  IF subms = <<>> THEN None ELSE subms[Len(subms)].key

\* the parsed records of the downloaded documents of a watchlist run, each
\* with its filing and the ticker being processed when it was downloaded
RECURSIVE WatchParsed(_)
WatchParsed(events) ==
    IF events = <<>> THEN <<>>
    ELSE LET e == events[Len(events)]
             earlier == SubSeq(events, 1, Len(events) - 1)
             parsed == IF e.kind = "doc" /\ e.ok
                       THEN ParseForm4Xml(e.body, e.key.url) ELSE <<>>
         IN  WatchParsed(earlier)
             \o [i \in 1..Len(parsed) |->
                    [parsed |-> parsed[i], filing |-> e.key, owner |-> Owner(earlier)]]

\* the watchlist tickers in upper case
UpperTickers == {Upper(arg.tickers[i]) : i \in 1..Len(arg.tickers)}

\* C11: every record a watchlist run returns has the upper-cased watchlist
\* ticker that was being processed when its document was downloaded, and the
\* filing date of the filing reference that document was fetched for,
\* whatever ticker the document carries.
C11_WatchFieldsOverwritten ==
    (entry = "watch" /\ pc = "done") =>
        LET from == WatchParsed(log)
        IN  /\ Len(result) = Len(from)
            /\ \A i \in 1..Len(result) :
                  /\ result[i].ticker = from[i].owner
                  /\ result[i].ticker \in UpperTickers
                  /\ IsUpperText(result[i].ticker)
                  /\ result[i].filing_date = from[i].filing.filingDate

\* a returned record of watchlist ticker "AB" whose document carried "B"
C11_Witness ==
    /\ entry = "watch" /\ pc = "done"
    /\ \E i \in 1..Len(result) :
          /\ result[i].ticker = <<"A", "B">>
          /\ WatchParsed(log)[i].parsed.ticker = <<"B">>
          /\ result[i].filing_date = <<"2026-01-07">>

\* the number of document requests that directly follow request i
DocRun(i) ==
    Cardinality({j \in (i + 1)..Len(Requests) :
                    \A k \in (i + 1)..j : Requests[k].kind = "doc"})

\* C12: in every run of collect_insider_trades, whatever the mode and the
\* path, the history request of a ticker is followed by at most the
\* caller's max_filings_per_ticker document requests.
C12_CallerCapHolds ==
    entry = "watch" =>
        \A i \in 1..Len(Requests) :
            Requests[i].kind = "subm" => DocRun(i) <= arg.max_filings_per_ticker

(* ---------------------------------------------------------------------- *)
(* Delays                                                                  *)
(* ---------------------------------------------------------------------- *)
IsRequest(e) == e.kind \notin {"sleep", "call"}

\* a delay lies between positions i and j of the log
DelayBetween(i, j) == \E k \in (i + 1)..(j - 1) : log[k].kind = "sleep"

\* the log entry just before position i is a delay
DelayJustBefore(i) == i > 1 /\ log[i - 1].kind = "sleep"

\* C13 as claimed: in every collection run a delay lies between any two
\* requests, whatever their kinds.
C13_NoRequestsBackToBack ==
    \A i \in 1..Len(log) : \A j \in (i + 1)..Len(log) :
        (IsRequest(log[i]) /\ IsRequest(log[j])) => DelayBetween(i, j)

\* C13: in every collection run each document request and each
\* submission-history request is issued directly after a delay, and so is
\* every search page after the first.
C13_DelayBeforeEachFetch ==
    \A i \in 1..Len(log) :
        /\ log[i].kind \in {"doc", "subm"} => DelayJustBefore(i)
        /\ (log[i].kind = "search" /\ log[i].key > 0) => DelayJustBefore(i)

\* a finished watchlist run: map download, delay, history, delay, document
C13_Witness ==
    /\ entry = "watch" /\ pc = "done"
    /\ Len(log) = 5
    /\ log[1].kind = "map" /\ log[1].ok
    /\ log[2].kind = "sleep"
    /\ log[3].kind = "subm"
    /\ log[4].kind = "sleep"
    /\ log[5].kind = "doc" /\ log[5].ok

\* the log entry just after position i is a delay
DelayJustAfter(i) == i < Len(log) /\ log[i + 1].kind = "sleep"

\* C14 as claimed: in a finished search every page request, the last one
\* included, is followed by a delay.
C14_DelayAfterEveryPage ==
    (entry = "search" /\ pc = "done") =>
        \A i \in 1..Len(log) : log[i].kind = "search" => DelayJustAfter(i)

\* C14: in search_form4_filings_by_date a page request is followed by a
\* delay exactly when it was answered with at least one hit and
\* offset + count stays below the reported total; a failed page, an empty
\* page and a page that reaches the total are followed by none.
C14_DelayAfterPageThatGoesOn ==
    entry = "search" =>
        \A i \in 1..Len(log) :
            log[i].kind = "search" =>
                (DelayJustAfter(i) <=>
                    (log[i].ok /\ log[i].n > 0 /\ log[i].key + log[i].n < log[i].total))

\* a finished search of two pages: a delay after the first, none after the
\* second
C14_Witness ==
    /\ entry = "search" /\ pc = "done"
    /\ Len(log) = 3
    /\ log[1].kind = "search" /\ log[1].ok
    /\ log[2].kind = "sleep"
    /\ log[3].kind = "search" /\ log[3].ok /\ log[3].n > 0

(* ---------------------------------------------------------------------- *)
(* The progress callback of the date-range strategy                        *)
(* ---------------------------------------------------------------------- *)
\* the calls (0, n), (1, n), ..., (n, n)
CountUp(n) == [k \in 1..(n + 1) |-> <<k - 1, n>>]

\* C15: in collect_all_form4_by_date with a callback the completed-count
\* never decreases and never exceeds the total N, the number of discovered
\* filings; a finished run with N >= 1 has made exactly the N + 1 calls
\* (0, N), (1, N), ..., (N, N) in that order, whichever downloads failed.
C15_CallbackSequence ==
    (entry = "date" /\ arg.callback) =>
        /\ \A k \in 1..Len(calls) :
              /\ calls[k][2] = Len(filings)
              /\ calls[k][1] <= calls[k][2]
              /\ k < Len(calls) => calls[k][1] <= calls[k + 1][1]
        /\ (pc = "done" /\ Len(filings) >= 1) =>
              /\ Len(calls) = Len(filings) + 1
              /\ calls = CountUp(Len(filings))
              /\ calls[Len(calls)] = <<Len(filings), Len(filings)>>

\* a finished run over two filings whose downloads both failed
C15_Witness ==
    /\ entry = "date" /\ pc = "done" /\ arg.callback
    /\ Len(filings) = 2
    /\ Len(DocEvents) = 2
    /\ \A i \in 1..Len(DocEvents) : ~DocEvents[i].ok
    /\ Len(calls) = 3

(* ---------------------------------------------------------------------- *)
(* parse_form4_xml on one document                                         *)
(* ---------------------------------------------------------------------- *)
MaxLines == 2

MaxTables == 2

\* a line whose element name is in PascalCase
LinePascal ==
    [tag |-> "Pascal", code |-> <<"M">>, shares |-> <<"5">>, price |-> <<"2">>,
     ad |-> <<"A">>]

\* the transaction lines a table may hold
TableLines == TextsOver({LineBuy, LineSell, LinePascal}, MaxLines)

\* the tables a document may hold
ParseTables == [kind : {"nd", "d"}, tag : {"camel", "Pascal"}, lines : TableLines]

ParseDocs ==
    [company : {<<"C">>, Absent}, ticker : {<<"b">>, Absent},
     tables : TextsOver(ParseTables, MaxTables)]

InitParse ==
    /\ entry = "parse"
    /\ pc = "start"
    /\ arg \in [doc : ParseDocs, url : {<<"u">>}]
    /\ world \in [parser : Parsers]
    /\ result = None
    /\ log = <<>>
    /\ IdleSearch
    /\ IdleResolver
    /\ IdleLoop

ParseDoc ==
    /\ entry = "parse"
    /\ pc = "start"
    /\ result' = ParseForm4Xml(arg.doc, arg.url)
    /\ pc' = "done"
    /\ UNCHANGED <<inputVars, resolverVars, searchVars, loopVars, log>>

NextParse == ParseDoc

SpecParse == InitParse /\ [][NextParse]_vars

\* the record carries what _parse_transaction makes of the line
FromLine(rec, line) ==
    LET t == ParseTransaction(line)
    IN  /\ rec.transaction_code = t.transaction_code
        /\ rec.shares = t.shares
        /\ rec.price_per_share = t.price_per_share
        /\ rec.total_value = t.total_value

\* the transaction lines of the document's tables of one kind, in document
\* order
RECURSIVE LinesOf(_, _)
LinesOf(tables, kind) ==
    IF tables = <<>> THEN <<>>
    ELSE (IF Head(tables).kind = kind THEN Head(tables).lines ELSE <<>>)
         \o LinesOf(Tail(tables), kind)

\* C16: parse_form4_xml gives one record per transaction line of the
\* document, those of the non-derivative lines first and in their order,
\* then those of the derivative lines in their order; the output is as long
\* as the document has non-derivative and derivative lines together.
C16_TableOrder ==
    (entry = "parse" /\ pc = "done") =>
        LET nd == LinesOf(arg.doc.tables, "nd")
            d == LinesOf(arg.doc.tables, "d")
        IN  /\ Len(result) = Len(nd) + Len(d)
            /\ \A i \in 1..Len(nd) : FromLine(result[i], nd[i])
            /\ \A j \in 1..Len(d) : FromLine(result[Len(nd) + j], d[j])

(* ---------------------------------------------------------------------- *)
(* The filings fetched for one watchlist ticker                            *)
(* ---------------------------------------------------------------------- *)
\* the accession numbers of the history's entries of form "4", in the
\* history's order, the first k of them
FirstForm4(history, k) ==
    LET ix == SelectSeq([i \in 1..Len(history.form) |-> i],
                        LAMBDA i : history.form[i] = <<"4">>)
    IN  Truncate([j \in 1..Len(ix) |-> history.accessionNumber[ix[j]]], k)

\* the accession numbers of the documents requested directly after request i
FetchedAfter(i) == [j \in 1..DocRun(i) |-> Requests[i + j].key.accessionNumber]

IsPrefix(s, t) == Len(s) <= Len(t) /\ s = SubSeq(t, 1, Len(s))

\* C17: the documents requested for a watchlist ticker are the entries of
\* its submission history whose form is the literal "4", in the history's
\* order, cut to the first max_filings_per_ticker of the invocation that
\* processes the ticker (the caller's, when the run starts in watchlist
\* mode); no entry of another form is ever requested, and no document is
\* requested except after a fetched history.
C17_FirstForm4Entries ==
    entry = "watch" =>
        /\ arg.mode = "watchlist" => frame.max = arg.max_filings_per_ticker
        /\ \A i \in 1..Len(Requests) :
              /\ Requests[i].kind = "doc" =>
                    (i > 1 /\ Requests[i - 1].kind \in {"subm", "doc"})
              /\ (Requests[i].kind = "subm" /\ ~Requests[i].ok) => DocRun(i) = 0
              /\ (Requests[i].kind = "subm" /\ Requests[i].ok) =>
                    /\ IsPrefix(FetchedAfter(i), FirstForm4(Requests[i].body, frame.max))
                    /\ pc = "done" =>
                          FetchedAfter(i) = FirstForm4(Requests[i].body, frame.max)

\* a run with maximum 1: of a history holding a "4/A" and then a "4" only
\* the "4" was requested, of a history holding two "4" only the first
C17_Witness ==
    /\ entry = "watch" /\ pc = "done"
    /\ arg.mode = "watchlist" /\ arg.max_filings_per_ticker = 1
    /\ Len(Requests) = 4
    /\ Requests[1].kind = "subm" /\ Requests[1].body = HistoryOf(<<EntryAmend, EntryA>>)
    /\ Requests[2].kind = "doc" /\ Requests[2].key.accessionNumber = EntryA.accessionNumber
    /\ Requests[3].kind = "subm" /\ Requests[3].body = HistoryOf(<<EntryA, EntryB>>)
    /\ Requests[4].kind = "doc" /\ Requests[4].key.accessionNumber = EntryA.accessionNumber

(* ---------------------------------------------------------------------- *)
(* search_form4_filings_by_date against answers of any length              *)
(* ---------------------------------------------------------------------- *)
\* the values at and next to the multiples of the page size
PagingSizes(max) == {v \in 0..max : v % PageSize \in {0, 1, PageSize - 1}}

PagingPatterns == {<<PlainHit>>, <<NoColonHit, PlainHit>>, <<NoEntityHit, PlainHit>>}

InitPaging ==
    /\ entry = "search"
    /\ pc = "search"
    /\ arg \in [max_filings : PagingSizes(MaxFilings) \ {0}]
    /\ world \in [total : PagingSizes(MaxTotal), pattern : PagingPatterns,
                  upstream : {"exact", "ragged"}]
    /\ result = None
    /\ log = <<>>
    /\ IdleSearch
    /\ IdleResolver
    /\ IdleLoop

NextPaging == SearchPageFails \/ SearchPage \/ SearchExtract

SpecPaging == InitPaging /\ [][NextPaging]_vars

\* no answered page so far held more hits than were asked for
WithinSize == \A i \in 1..Len(Pages) : Pages[i].ok => Pages[i].n <= Pages[i].size

\* C18: every page request of search_form4_filings_by_date asks for at
\* least 1 and at most 100 hits; as long as no page holds more hits than
\* were asked for, the accumulated hits never exceed max_filings, and the
\* returned filing references are at most as many as the hits and at most
\* max_filings.
C18_BoundedByMaxFilings ==
    entry = "search" =>
        /\ \A i \in 1..Len(Pages) : Pages[i].size >= 1 /\ Pages[i].size <= 100
        /\ WithinSize => Len(allHits) <= arg.max_filings
        /\ (WithinSize /\ pc = "done") =>
              /\ Len(result) <= Len(allHits)
              /\ Len(result) <= arg.max_filings

\* a finished search that filled max_filings = 201 over three pages, one of
\* them a hit short, and returned fewer references than hits
C18_Witness ==
    /\ entry = "search" /\ pc = "done"
    /\ world.upstream = "ragged" /\ WithinSize
    /\ arg.max_filings = 201
    /\ Len(Pages) = 3
    /\ Pages[1].n = 99
    /\ Len(allHits) = 201
    /\ Len(result) < Len(allHits)

(* ---------------------------------------------------------------------- *)
(* A search page that fails                                                *)
(* ---------------------------------------------------------------------- *)
\* the hits of the answered pages, in the order of the requests
RECURSIVE HitsOfPages(_)
HitsOfPages(pages) ==
    IF pages = <<>> THEN <<>>
    ELSE LET p == pages[Len(pages)]
         IN  HitsOfPages(SubSeq(pages, 1, Len(pages) - 1))
             \o (IF p.ok THEN [i \in 1..p.n |-> CorpusHit(p.key + i)] ELSE <<>>)

\* C19: a failed search page ends the pagination without an error: no page
\* is requested after it, and the hits of the pages answered before it are
\* turned into the filing references the search returns.  When the first
\* page fails, collect_all_form4_by_date fetches no document, never invokes
\* the callback and returns an empty list.
C19_FailedPageEndsSearch ==
    entry = "date" =>
        /\ pc # "error"
        /\ \A i \in 1..Len(Pages) : ~Pages[i].ok => i = Len(Pages)
        /\ allHits = HitsOfPages(Pages)
        /\ pc \notin {"search", "extract"} => filings = ExtractFilings(HitsOfPages(Pages))
        /\ (Pages # <<>> /\ ~Pages[1].ok) =>
              /\ pc \in {"extract", "nofilings", "done"}
              /\ DocEvents = <<>>
              /\ calls = <<>>
              /\ pc = "done" => result = <<>>

\* the second page failed; the hit of the first page became a filing
\* reference, its document was fetched and its records were returned
C19_Witness ==
    /\ entry = "date" /\ pc = "done"
    /\ Len(Pages) = 2
    /\ Pages[1].ok /\ Pages[1].n = 1
    /\ ~Pages[2].ok
    /\ Len(filings) = 1
    /\ Len(DocEvents) = 1 /\ DocEvents[1].ok
    /\ result # <<>>

====
